---- MODULE Spec2Model ----
(***************************************************************************)
(* A model of tmdb3/locales.py: the Language / Country registries, the     *)
(* Locale composite and the process-wide current locale with set_locale    *)
(* and get_locale.                                                          *)
(*                                                                         *)
(* Python strings are sequences of one-character strings, so that lower(), *)
(* split('_') and the < and > of strings are computed, not assumed.        *)
(* A text that no operation ever looks into (an English name) is kept as a *)
(* one-element sequence.                                                    *)
(***************************************************************************)
EXTENDS Integers, Sequences, FiniteSets, TLC

VARIABLES
    objs,         \* the live Language / Country / Locale objects a caller holds, by id
    langStored,   \* Language._stored : lower-cased key -> id of the instance
    ctryStored,   \* Country._stored  : lower-cased key -> id of the instance
    syslocale,    \* the module global syslocale: <<>> (None) or <<locale object>>
    fallthrough,  \* LocaleBase.fallthrough
    sysloc,       \* locale.getdefaultlocale()[0] of the host
    sysenc,       \* locale.getdefaultlocale()[1] of the host
    last,         \* the last call made, its arguments and its outcome
    tpc,          \* threads: position of each thread inside set_locale / get_locale
    tloc,         \* threads: the locals of each thread's running call
    installed     \* threads: every Locale an assignment to syslocale has stored

vars == <<objs, langStored, ctryStored, syslocale, fallthrough, sysloc, sysenc,
          last, tpc, tloc, installed>>

-----------------------------------------------------------------------------
(* Python strings *)

LowerAlpha == <<"a","b","c","d","e","f","g","h","i","j","k","l","m",
                "n","o","p","q","r","s","t","u","v","w","x","y","z">>
UpperAlpha == <<"A","B","C","D","E","F","G","H","I","J","K","L","M",
                "N","O","P","Q","R","S","T","U","V","W","X","Y","Z">>

IsIn(c, alpha) == \E i \in DOMAIN alpha : alpha[i] = c
IndexIn(c, alpha) == CHOOSE i \in DOMAIN alpha : alpha[i] = c

\* str.lower() on one character, then on a string
lowerChar(c) == IF IsIn(c, UpperAlpha) THEN LowerAlpha[IndexIn(c, UpperAlpha)] ELSE c
lower(s) == [i \in 1..Len(s) |-> lowerChar(s[i])]

\* str.upper()
upperChar(c) == IF IsIn(c, LowerAlpha) THEN UpperAlpha[IndexIn(c, LowerAlpha)] ELSE c
upper(s) == [i \in 1..Len(s) |-> upperChar(s[i])]

\* the code point of a character (ASCII)
ord(c) ==
    IF IsIn(c, UpperAlpha) THEN 64 + IndexIn(c, UpperAlpha)
    ELSE IF IsIn(c, LowerAlpha) THEN 96 + IndexIn(c, LowerAlpha)
    ELSE IF c = "_" THEN 95
    ELSE IF c = "/" THEN 47
    ELSE IF c = "-" THEN 45
    ELSE 0

\* the < of two Python strings: lexicographic by code point
StrLess(a, b) ==
    \E k \in 0..Len(a) :
        /\ k <= Len(b)
        /\ \A i \in 1..k : a[i] = b[i]
        /\ \/ (k = Len(a) /\ k < Len(b))
           \/ (k < Len(a) /\ k < Len(b) /\ ord(a[k+1]) < ord(b[k+1]))

\* sep in s
Contains(s, sep) == \E i \in 1..Len(s) : s[i] = sep

\* s.split(sep) for a one-character separator: the list of the pieces
RECURSIVE split(_, _)
split(s, sep) ==
    IF ~Contains(s, sep) THEN <<s>>
    ELSE LET p == CHOOSE i \in 1..Len(s) :
                      s[i] = sep /\ \A j \in 1..(i-1) : s[j] # sep
         IN  <<SubSeq(s, 1, p-1)>> \o split(SubSeq(s, p+1, Len(s)), sep)

-----------------------------------------------------------------------------
(* Python values: None, str, int, bool, and a reference to an object of objs *)

NoneV     == [t |-> "none", s |-> <<>>, n |-> 0]
StrV(s)    == [t |-> "str",  s |-> s,    n |-> 0]
IntV(n)    == [t |-> "int",  s |-> <<>>, n |-> n]
BoolV(b)   == [t |-> "bool", s |-> <<>>, n |-> IF b THEN 1 ELSE 0]
RefV(i)    == [t |-> "ref",  s |-> <<>>, n |-> i]

\* the truth value of a Python value (as `not x` and `x if x else y` see it)
Truthy(v) ==
    CASE v.t = "none" -> FALSE
      [] v.t = "str"  -> v.s # <<>>
      [] v.t = "int"  -> v.n # 0
      [] v.t = "bool" -> v.n # 0
      [] OTHER        -> TRUE

\* the literals of the source
EN       == <<"e","n">>
US       == <<"U","S">>
LATIN1   == <<"l","a","t","i","n","-","1">>
NoneText == <<"N","o","n","e">>

-----------------------------------------------------------------------------
(* Objects: a class, an identity and the attributes that are set *)

NoAttrs == [x \in {} |-> NoneV]

Slots(cls) ==
    {"_LocaleBase__immutable"} \cup
    CASE cls = "Language" -> {"ISO639_1", "ISO639_2", "ISO639_2B", "englishname", "nativename"}
      [] cls = "Country"  -> {"alpha2", "name"}
      [] cls = "Locale"   -> {"language", "country", "encoding"}
      [] OTHER            -> {}

\* getattr(self, name, default)
getattr(o, name, default) == IF name \in DOMAIN o.attrs THEN o.attrs[name] ELSE default

\* what __setattr__ and __delattr__ test: the name in the string literal is
\* not mangled, the slot and the assignment in __init__ are
IsImmutable(o) == Truthy(getattr(o, "__immutable", BoolV(FALSE)))

\* LocaleBase.__setattr__
setattr(o, key, value) ==
    IF IsImmutable(o)
    THEN [exc |-> "NotImplementedError", obj |-> o]
    ELSE IF key \in Slots(o.cls)
         THEN [exc |-> "", obj |-> [o EXCEPT !.attrs = (key :> value) @@ o.attrs]]
         ELSE [exc |-> "AttributeError", obj |-> o]

\* LocaleBase.__delattr__
delattr(o, key) ==
    IF IsImmutable(o)
    THEN [exc |-> "NotImplementedError", obj |-> o]
    ELSE IF key \in DOMAIN o.attrs
         THEN [exc |-> "", obj |-> [o EXCEPT !.attrs =
                                       [k \in (DOMAIN o.attrs) \ {key} |-> o.attrs[k]]]]
         ELSE [exc |-> "AttributeError", obj |-> o]

\* a registration that keeps the key as it was given
RECURSIVE StoreKeysAsGiven(_, _, _)
StoreKeysAsGiven(stored, keys, id) ==
    IF keys = <<>> THEN stored
    ELSE StoreKeysAsGiven((Head(keys) :> id) @@ stored, Tail(keys), id)

\* the loop of LocaleBase.__init__: self._stored[key.lower()] = self
RECURSIVE StoreKeys(_, _, _)
StoreKeys(stored, keys, id) ==
    IF keys = <<>> THEN stored
    ELSE StoreKeys((lower(Head(keys)) :> id) @@ stored, Tail(keys), id)

\* LocaleBase.__init__(self, *keys): the new registry and the finished object
LocaleBase__init__(stored, o, keys) ==
    [stored |-> StoreKeys(stored, keys, o.id),
     obj    |-> setattr(o, "_LocaleBase__immutable", BoolV(TRUE)).obj]

\* a lookup that does not fold the case of the key
getstoredExact(stored, cls, key) ==
    IF key = NoneV
    THEN [exc |-> "", val |-> NoneV, key |-> NoneV, kind |-> ""]
    ELSE IF key.t = "str" /\ key.s \in DOMAIN stored
         THEN [exc |-> "", val |-> RefV(stored[key.s]), key |-> NoneV, kind |-> ""]
         ELSE [exc |-> "TMDBLocaleError", val |-> NoneV, key |-> key, kind |-> cls]

\* LocaleBase.getstored
getstored(stored, cls, key) ==
    IF key = NoneV
    THEN [exc |-> "", val |-> NoneV, key |-> NoneV, kind |-> ""]
    ELSE IF key.t = "str" /\ lower(key.s) \in DOMAIN stored
         THEN [exc |-> "", val |-> RefV(stored[lower(key.s)]), key |-> NoneV, kind |-> ""]
         ELSE [exc |-> "TMDBLocaleError", val |-> NoneV, key |-> key, kind |-> cls]

\* Language.__init__
Language__init__(stored, id, iso1, iso2, ename) ==
    LET o0 == [cls |-> "Language", id |-> id, attrs |-> NoAttrs]
        o1 == setattr(o0, "ISO639_1", StrV(iso1)).obj
        o2 == setattr(o1, "ISO639_2", StrV(iso2)).obj
        o3 == setattr(o2, "englishname", StrV(ename)).obj
    IN  LocaleBase__init__(stored, o3, <<iso1, iso2>>)

\* Country.__init__
Country__init__(stored, id, alpha2, name) ==
    LET o0 == [cls |-> "Country", id |-> id, attrs |-> NoAttrs]
        o1 == setattr(o0, "alpha2", StrV(alpha2)).obj
        o2 == setattr(o1, "name", StrV(name)).obj
    IN  LocaleBase__init__(stored, o2, <<alpha2>>)

\* Locale.__init__ with no alias keys: the new object, or the error of the
\* first lookup that fails
Locale__init__(ls, cs, id, language, country, encoding) ==
    LET l  == getstored(ls, "Language", language)
        c  == getstored(cs, "Country", country)
        o0 == [cls |-> "Locale", id |-> id, attrs |-> NoAttrs]
        o1 == setattr(o0, "language", l.val).obj
        o2 == setattr(o1, "country", c.val).obj
        o3 == setattr(o2, "encoding",
                      IF Truthy(encoding) THEN encoding ELSE StrV(LATIN1)).obj
        o4 == LocaleBase__init__(NoAttrs, o3, <<>>).obj
    IN  IF l.exc # "" THEN [exc |-> l.exc, ret |-> <<>>, key |-> l.key, kind |-> l.kind]
        ELSE IF c.exc # "" THEN [exc |-> c.exc, ret |-> <<>>, key |-> c.key, kind |-> c.kind]
        ELSE [exc |-> "", ret |-> <<o4>>, key |-> NoneV, kind |-> ""]

\* Language.__str__ and Country.__str__
strEntity(o) == IF o.cls = "Language" THEN o.attrs["ISO639_1"].s ELSE o.attrs["alpha2"].s

\* how an f-string renders the language or country attribute of a Locale
strField(h, v) == IF v = NoneV THEN NoneText ELSE strEntity(h[v.n])

\* str() of any object; h is the heap the Locale's references point into
str(h, o) ==
    IF o.cls = "Locale"
    THEN strField(h, o.attrs["language"]) \o <<"_">> \o strField(h, o.attrs["country"])
    ELSE strEntity(o)

\* a __lt__ in the natural order of the strings
ltNatural(h, self, other) == (self.id # other.id) /\ StrLess(str(h, self), str(h, other))

\* LocaleBase.__lt__, __gt__, __eq__
lt(h, self, other) == (self.id # other.id) /\ StrLess(str(h, other), str(h, self))
gt(h, self, other) == (self.id # other.id) /\ StrLess(str(h, self), str(h, other))
eq(h, self, other) == (self.id = other.id) \/ (str(h, self) = str(h, other))

-----------------------------------------------------------------------------
(* The seed data: the calls at the end of the module, a sample of them *)

DV  == <<"d","v">>
DIV == <<"d","i","v">>
ENG == <<"e","n","g">>
FR  == <<"f","r">>
FRE == <<"f","r","e","/","f","r","a">>
FRc == <<"F","R">>

Seed ==
    << [cls |-> "Language", a |-> DV,  b |-> DIV, name |-> <<"Dhivehi">>],
       [cls |-> "Language", a |-> DV,  b |-> DIV, name |-> <<"Divehi">>],
       [cls |-> "Language", a |-> EN,  b |-> ENG, name |-> <<"English">>],
       [cls |-> "Language", a |-> FR,  b |-> FRE, name |-> <<"French">>],
       [cls |-> "Country",  a |-> FRc, b |-> <<>>, name |-> <<"France">>],
       [cls |-> "Country",  a |-> US,  b |-> <<>>, name |-> <<"United States of America">>] >>

\* running the calls of the seed data in order, as the import of the module does
RECURSIVE Load(_, _)
Load(calls, st) ==
    IF calls = <<>> THEN st
    ELSE LET c  == Head(calls)
             id == Len(st.objs) + 1
         IN  IF c.cls = "Language"
             THEN LET r == Language__init__(st.ls, id, c.a, c.b, c.name)
                  IN  Load(Tail(calls), [objs |-> Append(st.objs, r.obj),
                                         ls |-> r.stored, cs |-> st.cs])
             ELSE LET r == Country__init__(st.cs, id, c.a, c.name)
                  IN  Load(Tail(calls), [objs |-> Append(st.objs, r.obj),
                                         ls |-> st.ls, cs |-> r.stored])

Seeded == Load(Seed, [objs |-> <<>>, ls |-> NoAttrs, cs |-> NoAttrs])

-----------------------------------------------------------------------------
(* Bounds and inputs *)

\* the most objects a caller constructs and keeps on top of the seed data
MaxNew == 2

XX  == <<"x","x">>
YY  == <<"Y","Y">>
UTF8 == <<"U","T","F","-","8">>

FR_FR == <<"f","r","_","F","R">>
DE_DE == <<"d","e","_","D","E">>
FOO   == <<"f","o","o">>

\* what locale.getdefaultlocale() may answer on a host: (locale, encoding)
Hosts == { <<NoneV, NoneV>>, <<StrV(FR_FR), StrV(UTF8)>>, <<StrV(DE_DE), StrV(UTF8)>>,
           <<StrV(FOO), NoneV>> }

\* the id of a new object: one that no live object has
FreshId(live) ==
    CHOOSE i \in 1..(Cardinality(live) + 1) :
        i \notin live /\ \A j \in 1..(i-1) : j \in live

Ids(s) == {s[i].id : i \in DOMAIN s}

-----------------------------------------------------------------------------
(* The record of a call *)

NoCall ==
    [op |-> "none", a |-> NoneV, b |-> NoneV, exc |-> "", val |-> NoneV,
     ret |-> <<>>, pre |-> <<>>, key |-> NoneV, kind |-> "", cmp |-> <<>>,
     rcmp |-> <<>>, rep |-> FALSE, target |-> <<>>, preLang |-> NoAttrs, preCtry |-> NoAttrs]

Call(op, a, b) ==
    [NoCall EXCEPT !.op = op, !.a = a, !.b = b, !.pre = syslocale,
                   !.preLang = langStored, !.preCtry = ctryStored]

InitRegistries ==
    /\ objs = Seeded.objs
    /\ langStored = Seeded.ls
    /\ ctryStored = Seeded.cs
    /\ syslocale = <<>>
    /\ fallthrough = FALSE
    /\ last = NoCall

InitCommon ==
    /\ InitRegistries
    /\ tpc = <<>>
    /\ tloc = <<>>
    /\ installed = {}

-----------------------------------------------------------------------------
(* Registries, ordering: the calls a client makes on the entities *)

resolver == <<syslocale, fallthrough, sysloc, sysenc, tpc, tloc, installed>>

InitEntity ==
    /\ InitCommon
    /\ sysloc = NoneV
    /\ sysenc = NoneV

\* Language(iso1, iso2, ename)
NewLanguage(iso1, iso2) ==
    /\ Len(objs) < Len(Seed) + MaxNew
    /\ LET r == Language__init__(langStored, FreshId(Ids(objs)), iso1, iso2, <<"name">>)
       IN  /\ objs' = Append(objs, r.obj)
           /\ langStored' = r.stored
           /\ last' = [Call("Language", StrV(iso1), StrV(iso2)) EXCEPT !.ret = <<r.obj>>]
    /\ UNCHANGED <<ctryStored, resolver>>

\* Country(alpha2, name)
NewCountry(alpha2) ==
    /\ Len(objs) < Len(Seed) + MaxNew
    /\ LET r == Country__init__(ctryStored, FreshId(Ids(objs)), alpha2, <<"name">>)
       IN  /\ objs' = Append(objs, r.obj)
           /\ ctryStored' = r.stored
           /\ last' = [Call("Country", StrV(alpha2), NoneV) EXCEPT !.ret = <<r.obj>>]
    /\ UNCHANGED <<langStored, resolver>>

\* Locale(language, country, encoding)
NewLocale(language, country, encoding) ==
    /\ Len(objs) < Len(Seed) + MaxNew
    /\ LET r == Locale__init__(langStored, ctryStored, FreshId(Ids(objs)),
                               language, country, encoding)
       IN  /\ objs' = objs \o r.ret
           /\ last' = [Call("Locale", language, country) EXCEPT
                          !.exc = r.exc, !.ret = r.ret, !.key = r.key, !.kind = r.kind]
    /\ UNCHANGED <<langStored, ctryStored, resolver>>

\* Language.getstored(key), Country.getstored(key)
GetStored(cls, key) ==
    /\ LET r == getstored(IF cls = "Language" THEN langStored ELSE ctryStored, cls, key)
       IN  last' = [Call("getstored", StrV(<<cls>>), key) EXCEPT
                       !.exc = r.exc, !.val = r.val, !.key = r.key, !.kind = r.kind]
    /\ UNCHANGED <<objs, langStored, ctryStored, resolver>>

\* a < b, a > b, a == b and b < a, b > a, b == a for two objects the caller holds
Compare(i, j) ==
    /\ last' = [Call("compare", RefV(i), RefV(j)) EXCEPT
                   !.cmp = <<lt(objs, objs[i], objs[j]),
                             gt(objs, objs[i], objs[j]),
                             eq(objs, objs[i], objs[j])>>,
                   !.rcmp = <<lt(objs, objs[j], objs[i]),
                              gt(objs, objs[j], objs[i]),
                              eq(objs, objs[j], objs[i])>>]
    /\ UNCHANGED <<objs, langStored, ctryStored, resolver>>

LookupKeys ==
    {NoneV, IntV(-1), StrV(<<>>), StrV(EN), StrV(upper(EN)), StrV(DIV), StrV(XX), StrV(US)}

NextEntity ==
    \/ \E iso1 \in {EN, upper(DV)} : NewLanguage(iso1, DIV)
    \/ \E alpha2 \in {lower(US)} : NewCountry(alpha2)
    \/ \E l \in {StrV(EN), StrV(XX)}, c \in {NoneV, StrV(US)} : NewLocale(l, c, NoneV)
    \/ \E cls \in {"Language", "Country"}, key \in LookupKeys : GetStored(cls, key)
    \/ \E i \in DOMAIN objs, j \in DOMAIN objs : i <= j /\ Compare(i, j)

SpecEntity == InitEntity /\ [][NextEntity]_vars

-----------------------------------------------------------------------------
(* Registries: the claims *)

Lookup(cls, c) == getstored(IF cls = "Language" THEN langStored ELSE ctryStored, cls, StrV(c))

\* the alias keys each constructed entity was registered under
KeysOf(o) ==
    IF o.cls = "Language" THEN {o.attrs["ISO639_1"].s, o.attrs["ISO639_2"].s}
    ELSE IF o.cls = "Country" THEN {o.attrs["alpha2"].s}
    ELSE {}

\* C4: in both registries a lookup fails with the unknown-code error, naming
\* the entity kind and the key, exactly when the key is not None and nothing
\* is registered under its lower-cased form; a lookup of None answers None;
\* no lookup, failed or not, changes a registry.
C4_LookupFailsExactlyOnUnknownKey ==
    last.op = "getstored" =>
        LET cls    == last.a.s[1]
            stored == IF cls = "Language" THEN last.preLang ELSE last.preCtry
            key    == last.b
            known  == key.t = "str" /\ \E k \in DOMAIN stored : k = lower(key.s)
        IN  /\ (last.exc = "TMDBLocaleError") <=> (key # NoneV /\ ~known)
            /\ last.exc \in {"", "TMDBLocaleError"}
            /\ (key = NoneV) => (last.exc = "" /\ last.val = NoneV)
            /\ (last.exc = "TMDBLocaleError") => (last.kind = cls /\ last.key = key)
            /\ (key # NoneV /\ known) => last.val = RefV(stored[lower(key.s)])
            /\ langStored = last.preLang
            /\ ctryStored = last.preCtry

\* a lookup of an unregistered code has failed, one in another letter case has not
C4_Witness ==
    /\ last.op = "getstored"
    /\ last.b = StrV(XX)
    /\ last.exc = "TMDBLocaleError"
    /\ Lookup("Language", upper(EN)).exc = ""

\* C5 as stated: after any sequence of registrations, the alias keys given to
\* one registration all resolve to one and the same instance, in any letter case.
C5_AliasesOfEveryCallAgree ==
    \A i \in DOMAIN objs :
        \A k1 \in KeysOf(objs[i]), k2 \in KeysOf(objs[i]) :
            \A f1 \in {k1, upper(k1), lower(k1)}, f2 \in {k2, upper(k2), lower(k2)} :
                /\ Lookup(objs[i].cls, f1).exc = ""
                /\ Lookup(objs[i].cls, f1) = Lookup(objs[i].cls, f2)

\* C5 amended: right after a registration every alias key given to it
\* resolves, in any letter case, to the instance that call registered; and
\* every code ever registered resolves to one instance whatever its case.
C5_AliasesOfLastCallAgree ==
    /\ last.op \in {"Language", "Country"} =>
           \A k \in KeysOf(last.ret[1]) : \A f \in {k, upper(k), lower(k)} :
               /\ Lookup(last.op, f).exc = ""
               /\ Lookup(last.op, f).val = RefV(last.ret[1].id)
    /\ \A i \in DOMAIN objs : \A c \in KeysOf(objs[i]) :
           /\ Lookup(objs[i].cls, c).exc = ""
           /\ Lookup(objs[i].cls, c) = Lookup(objs[i].cls, upper(c))
           /\ Lookup(objs[i].cls, c) = Lookup(objs[i].cls, lower(c))

\* a registration has reused one key of an earlier one: Language("en", "div", ...)
\* leaves "dv" on the seed instance and moves "div" to the new one
C5_Witness ==
    /\ last.op = "Language"
    /\ last.a = StrV(EN)
    /\ last.b = StrV(DIV)
    /\ Lookup("Language", DV).val # Lookup("Language", DIV).val
    /\ Lookup("Language", DIV).val = RefV(last.ret[1].id)

\* C6: a < b iff a and b are different instances and str(a) > str(b);
\* a > b iff different instances and str(a) < str(b); an instance is neither
\* < nor > itself and equals itself; different instances with the same string
\* are neither < nor > and are equal; "en" > "fr" is true, "en" < "fr" false.
C6_InvertedOrdering ==
    last.op = "compare" =>
        LET a  == objs[last.a.n]
            b  == objs[last.b.n]
            sa == str(objs, a)
            sb == str(objs, b)
            Holds(x, y, sx, sy, c) ==
                /\ c[1] <=> (x.id # y.id /\ StrLess(sy, sx))
                /\ c[2] <=> (x.id # y.id /\ StrLess(sx, sy))
                /\ c[3] <=> (x.id = y.id \/ sx = sy)
                /\ (x.id = y.id) => (~c[1] /\ ~c[2] /\ c[3])
                /\ (x.id # y.id /\ sx = sy) => (~c[1] /\ ~c[2] /\ c[3])
                /\ (x.id # y.id /\ sx = EN /\ sy = FR) => (c[2] /\ ~c[1])
        IN  /\ Holds(a, b, sa, sb, last.cmp)
            /\ Holds(b, a, sb, sa, last.rcmp)

\* two Locale instances with the same string form have been compared
C6_Witness ==
    /\ last.op = "compare"
    /\ last.a.n # last.b.n
    /\ objs[last.a.n].cls = "Locale"
    /\ objs[last.b.n].cls = "Locale"
    /\ str(objs, objs[last.a.n]) = str(objs, objs[last.b.n])
    /\ last.cmp = <<FALSE, FALSE, TRUE>>

-----------------------------------------------------------------------------
(* Immutability: a client assigns to and deletes attributes *)

\* the objects the client tries to modify: "en", "US" and every Locale it built
Targets == {i \in DOMAIN objs : objs[i].cls = "Locale" \/ strEntity(objs[i]) \in {EN, US}}

\* obj.key = value
SetAttr(i, key, value) ==
    /\ LET r == setattr(objs[i], key, value)
       IN  /\ objs' = [objs EXCEPT ![i] = r.obj]
           /\ last' = [Call("setattr", RefV(i), StrV(<<key>>)) EXCEPT
                          !.exc = r.exc, !.val = value, !.target = <<objs[i]>>]
    /\ UNCHANGED <<langStored, ctryStored, resolver>>

\* del obj.key
DelAttr(i, key) ==
    /\ LET r == delattr(objs[i], key)
       IN  /\ objs' = [objs EXCEPT ![i] = r.obj]
           /\ last' = [Call("delattr", RefV(i), StrV(<<key>>)) EXCEPT
                          !.exc = r.exc, !.target = <<objs[i]>>]
    /\ UNCHANGED <<langStored, ctryStored, resolver>>

AttrNames == {"englishname", "name", "encoding"}

NextMutate ==
    \/ NewLocale(StrV(EN), StrV(US), NoneV)
    \/ \E i \in Targets, key \in AttrNames : SetAttr(i, key, StrV(<<"x">>))
    \/ \E i \in Targets, key \in AttrNames : DelAttr(i, key)

SpecMutate == InitEntity /\ [][NextMutate]_vars

\* C2: once the constructor of a Language, Country or Locale has completed,
\* setting or deleting one of its attributes fails with the immutability
\* error and leaves the attribute as it was.
C2_ConstructedEntitiesAreImmutable ==
    (last.op \in {"setattr", "delattr"} /\ last.b.s[1] \in DOMAIN last.target[1].attrs) =>
        /\ last.exc = "NotImplementedError"
        /\ objs[last.a.n] = last.target[1]

-----------------------------------------------------------------------------
(* The current locale: set_locale and get_locale, one call at a time *)

\* dat of set_locale: the base (language, country) for the missing arguments
BaseOf(sl, h, hloc) ==
    IF sl # <<>>
    THEN <<StrV(strField(h, sl[1].attrs["language"])),
           StrV(strField(h, sl[1].attrs["country"]))>>
    ELSE IF hloc = NoneV \/ ~Contains(hloc.s, "_")
         THEN <<StrV(EN), StrV(US)>>
         ELSE [i \in DOMAIN split(hloc.s, "_") |-> StrV(split(hloc.s, "_")[i])]

\* a set_locale that asks the host first and the current locale last
set_localeHostFirst(sl, h, ls, cs, hloc, henc, id, language, country, ft) ==
    LET dat == IF hloc # NoneV /\ Contains(hloc.s, "_")
               THEN [i \in DOMAIN split(hloc.s, "_") |-> StrV(split(hloc.s, "_")[i])]
               ELSE IF sl # <<>> THEN BaseOf(sl, h, hloc) ELSE <<StrV(EN), StrV(US)>>
        l == IF language = NoneV THEN dat[1] ELSE language
        c == IF country = NoneV THEN dat[2] ELSE country
        r == Locale__init__(ls, cs, id, l, c, henc)
    IN  [exc |-> r.exc, key |-> r.key, kind |-> r.kind, fallthrough |-> ft,
         syslocale |-> IF r.exc = "" THEN r.ret ELSE sl]

\* a set_locale that writes the looked-up language into the current locale
\* before it looks the country up
set_localeInPlace(sl, h, ls, cs, hloc, henc, id, language, country, ft) ==
    LET dat == BaseOf(sl, h, hloc)
        l == IF language = NoneV THEN dat[1] ELSE language
        c == IF country = NoneV THEN dat[2] ELSE country
        r == Locale__init__(ls, cs, id, l, c, henc)
        g == getstored(ls, "Language", l)
    IN  [exc |-> r.exc, key |-> r.key, kind |-> r.kind, fallthrough |-> ft,
         syslocale |-> IF r.exc = "" THEN r.ret
                       ELSE IF sl # <<>> /\ g.exc = ""
                            THEN <<[sl[1] EXCEPT !.attrs = ("language" :> g.val) @@ @]>>
                            ELSE sl]

\* a set_locale that passes the host encoding on only when no locale is current
set_localeForgetEncoding(sl, h, ls, cs, hloc, henc, id, language, country, ft) ==
    LET dat == BaseOf(sl, h, hloc)
        l == IF language = NoneV THEN dat[1] ELSE language
        c == IF country = NoneV THEN dat[2] ELSE country
        r == Locale__init__(ls, cs, id, l, c, IF sl = <<>> THEN henc ELSE NoneV)
    IN  [exc |-> r.exc, key |-> r.key, kind |-> r.kind, fallthrough |-> ft,
         syslocale |-> IF r.exc = "" THEN r.ret ELSE sl]

\* a set_locale that looks for a base pair only when both arguments are missing
set_localeBothMissing(sl, h, ls, cs, hloc, henc, id, language, country, ft) ==
    LET missing == (~Truthy(language)) /\ (~Truthy(country))
        dat == BaseOf(sl, h, hloc)
        l == IF missing /\ language = NoneV THEN dat[1] ELSE language
        c == IF missing /\ country = NoneV THEN dat[2] ELSE country
        r == Locale__init__(ls, cs, id, l, c, henc)
    IN  [exc |-> r.exc, key |-> r.key, kind |-> r.kind, fallthrough |-> ft,
         syslocale |-> IF r.exc = "" THEN r.ret ELSE sl]

\* set_locale(language, country, fallthrough): the new LocaleBase.fallthrough,
\* the new syslocale and the error raised, if any.  sl is syslocale, h the
\* objects, ls and cs the registries, (hloc, henc) the host's answer, id the
\* identity of the Locale under construction.
set_locale(sl, h, ls, cs, hloc, henc, id, language, country, ft) ==
    LET missing == (~Truthy(language)) \/ (~Truthy(country))
        dat == BaseOf(sl, h, hloc)
        l == IF missing /\ language = NoneV THEN dat[1] ELSE language
        c == IF missing /\ country = NoneV THEN dat[2] ELSE country
        r == Locale__init__(ls, cs, id, l, c, henc)
    IN  [exc |-> r.exc, key |-> r.key, kind |-> r.kind, fallthrough |-> ft,
         syslocale |-> IF r.exc = "" THEN r.ret ELSE sl]

\* loc of get_locale: the stored locale, or one made up for the call
LocOf(sl, ls, cs, henc, id) ==
    IF sl = <<>> THEN Locale__init__(ls, cs, id, NoneV, NoneV, henc).ret[1] ELSE sl[1]

\* a get_locale that keeps the locale it made up as the current one
get_localeStoring(sl, ls, cs, henc, id1, id2, language, country) ==
    LET loc == LocOf(sl, ls, cs, henc, id1)
        r == Locale__init__(ls, cs, id2,
                            IF language = IntV(-1) THEN loc.attrs["language"] ELSE language,
                            IF language # IntV(-1) /\ country = IntV(-1)
                            THEN loc.attrs["country"] ELSE country,
                            loc.attrs["encoding"])
    IN  IF language = country /\ country = IntV(-1)
        THEN [exc |-> "", ret |-> <<loc>>, key |-> NoneV, kind |-> "", syslocale |-> <<loc>>]
        ELSE [exc |-> r.exc, ret |-> r.ret, key |-> r.key, kind |-> r.kind,
              syslocale |-> <<loc>>]

\* get_locale(language, country): what it returns or raises, and syslocale
\* after it.  id1 and id2 are the identities of the Locales it may construct.
get_locale(sl, ls, cs, henc, id1, id2, language, country) ==
    LET loc == LocOf(sl, ls, cs, henc, id1)
        l == IF language = IntV(-1) THEN loc.attrs["language"] ELSE language
        c == IF language # IntV(-1) /\ country = IntV(-1)
             THEN loc.attrs["country"] ELSE country
        r == Locale__init__(ls, cs, id2, l, c, loc.attrs["encoding"])
    IN  IF language = country /\ country = IntV(-1)
        THEN [exc |-> "", ret |-> <<loc>>, key |-> NoneV, kind |-> "", syslocale |-> sl]
        ELSE [exc |-> r.exc, ret |-> r.ret, key |-> r.key, kind |-> r.kind,
              syslocale |-> sl]

\* the identities in use: the entities, the current locale, and the object
\* the caller got from its last call
Live == Ids(objs) \cup Ids(syslocale) \cup Ids(last.ret)

Init ==
    /\ InitCommon
    /\ \E host \in Hosts : sysloc = host[1] /\ sysenc = host[2]

SetLocale(language, country, ft) ==
    /\ LET r == set_locale(syslocale, objs, langStored, ctryStored, sysloc, sysenc,
                           FreshId(Live), language, country, ft)
       IN  /\ syslocale' = r.syslocale
           /\ fallthrough' = r.fallthrough
           /\ last' = [Call("set_locale", language, country) EXCEPT
                          !.exc = r.exc, !.key = r.key, !.kind = r.kind,
                          !.val = BoolV(ft),
                          !.rep = (last.op = "set_locale" /\ last.a = language
                                   /\ last.b = country)]
    /\ UNCHANGED <<objs, langStored, ctryStored, sysloc, sysenc, tpc, tloc, installed>>

GetLocale(language, country) ==
    /\ LET id1 == FreshId(Live)
           r == get_locale(syslocale, langStored, ctryStored, sysenc,
                           id1, FreshId(Live \cup {id1}), language, country)
       IN  /\ syslocale' = r.syslocale
           /\ last' = [Call("get_locale", language, country) EXCEPT
                          !.exc = r.exc, !.ret = r.ret, !.key = r.key, !.kind = r.kind]
    /\ UNCHANGED <<objs, langStored, ctryStored, fallthrough, sysloc, sysenc, tpc, tloc, installed>>

SetLanguages == {NoneV, StrV(<<>>), StrV(EN), StrV(FR), StrV(XX)}
SetCountries == {NoneV, StrV(<<>>), StrV(US), StrV(FRc), StrV(YY)}
GetLanguages == {IntV(-1), NoneV, StrV(FR), StrV(XX)}
GetCountries == {IntV(-1), NoneV, StrV(US)}

Next ==
    \/ \E l \in SetLanguages, c \in SetCountries, ft \in BOOLEAN : SetLocale(l, c, ft)
    \/ \E l \in GetLanguages, c \in GetCountries : GetLocale(l, c)

Spec == Init /\ [][Next]_vars

-----------------------------------------------------------------------------
(* The current locale: the claims *)

IsCode(stored, v) == v.t = "str" /\ \E k \in DOMAIN stored : k = lower(v.s)

\* the base pair as the specification orders it: the current locale, else the
\* host's language_COUNTRY, else en_US
BasePair(cur) ==
    IF cur # <<>>
    THEN <<str(objs, objs[cur[1].attrs["language"].n]),
           str(objs, objs[cur[1].attrs["country"].n])>>
    ELSE IF sysloc # NoneV /\ Contains(sysloc.s, "_")
         THEN <<split(sysloc.s, "_")[1], split(sysloc.s, "_")[2]>>
         ELSE <<EN, US>>

\* the codes a set_locale call resolves its arguments to
ResolvedLanguage == IF last.a = NoneV THEN StrV(BasePair(last.pre)[1]) ELSE last.a
ResolvedCountry  == IF last.b = NoneV THEN StrV(BasePair(last.pre)[2]) ELSE last.b

HostEncoding == IF sysenc = NoneV \/ sysenc = StrV(<<>>) THEN StrV(LATIN1) ELSE sysenc

\* C1 as stated: with a current locale set, get_locale with exactly one of
\* language / country supplied returns, without error, a Locale with the
\* supplied code in its field, the current locale's value in the other field
\* and the current locale's encoding.
C1_GetLocaleOneArgument ==
    ( /\ last.op = "get_locale"
      /\ last.pre # <<>>
      /\ \/ (IsCode(langStored, last.a) /\ last.b = IntV(-1))
         \/ (last.a = IntV(-1) /\ IsCode(ctryStored, last.b)) )
    => /\ last.exc = ""
       /\ last.ret # <<>>
       /\ last.ret[1].attrs["language"] =
              IF last.a = IntV(-1) THEN last.pre[1].attrs["language"]
              ELSE RefV(langStored[lower(last.a.s)])
       /\ last.ret[1].attrs["country"] =
              IF last.b = IntV(-1) THEN last.pre[1].attrs["country"]
              ELSE RefV(ctryStored[lower(last.b.s)])
       /\ last.ret[1].attrs["encoding"] = last.pre[1].attrs["encoding"]

\* C3: set_locale takes each missing (None) argument from the base pair: the
\* current locale's language / country if one is set, else the host locale
\* split at '_' if it has one, else ("en", "US"); a supplied argument is used
\* as it is.  The call succeeds exactly when both resolved codes are
\* registered, and then installs the entities they name.  On a fresh process
\* with no host locale set_locale() installs en_US.
C3_ResolutionPrecedence ==
    last.op = "set_locale" =>
        /\ (last.exc = "") <=> (IsCode(langStored, ResolvedLanguage)
                                /\ IsCode(ctryStored, ResolvedCountry))
        /\ (last.exc = "") =>
               /\ syslocale # <<>>
               /\ syslocale[1].attrs["language"] = RefV(langStored[lower(ResolvedLanguage.s)])
               /\ syslocale[1].attrs["country"] = RefV(ctryStored[lower(ResolvedCountry.s)])
        /\ (last.pre = <<>> /\ sysloc = NoneV /\ last.a = NoneV /\ last.b = NoneV) =>
               /\ last.exc = ""
               /\ str(objs, syslocale[1]) = EN \o <<"_">> \o US

\* set_locale() with a current locale en_US on a host whose locale is fr_FR
\* has kept en_US
C3_Witness ==
    /\ last.op = "set_locale"
    /\ last.a = NoneV
    /\ last.b = NoneV
    /\ last.pre # <<>>
    /\ sysloc = StrV(FR_FR)
    /\ last.exc = ""
    /\ str(objs, syslocale[1]) = EN \o <<"_">> \o US

\* C7: get_locale never changes the stored current locale, whatever its
\* arguments and whether it returns or raises: unset stays unset, and a set
\* locale stays the same instance.  With nothing stored, get_locale() returns
\* a Locale with language None, country None and the host's encoding
\* ('latin-1' when the host names none), and a set_locale() that follows
\* still resolves from the host locale or the default, not from that Locale.
C7_GetLocaleIsARead ==
    last.op = "get_locale" =>
        /\ syslocale = last.pre
        /\ (last.pre = <<>> /\ last.a = IntV(-1) /\ last.b = IntV(-1)) =>
               /\ last.exc = ""
               /\ last.ret # <<>>
               /\ last.ret[1].attrs["language"] = NoneV
               /\ last.ret[1].attrs["country"] = NoneV
               /\ last.ret[1].attrs["encoding"] = HostEncoding
        /\ (last.pre # <<>> /\ last.a = IntV(-1) /\ last.b = IntV(-1)) =>
               last.ret = last.pre
        /\ (last.pre = <<>>) =>
               LET r == set_locale(syslocale, objs, langStored, ctryStored, sysloc, sysenc,
                                   FreshId(Live), NoneV, NoneV, FALSE)
               IN  (r.exc = "") <=> ( /\ IsCode(langStored, StrV(BasePair(<<>>)[1]))
                                      /\ IsCode(ctryStored, StrV(BasePair(<<>>)[2]))
                                      /\ str(objs, r.syslocale[1]) =
                                             BasePair(<<>>)[1] \o <<"_">> \o BasePair(<<>>)[2] )

\* a get_locale call has raised with a locale stored, which is still there
C7_Witness ==
    /\ last.op = "get_locale"
    /\ last.pre # <<>>
    /\ last.exc = "TMDBLocaleError"
    /\ syslocale = last.pre

\* C8: a set_locale that succeeds leaves a new Locale whose language,
\* country and encoding are all those just resolved; one that fails with the
\* unknown-code error leaves syslocale exactly as it was (unset, or the same
\* instance with the same fields).
C8_SetLocaleReplacesWhole ==
    last.op = "set_locale" =>
        /\ last.exc \in {"", "TMDBLocaleError"}
        /\ (last.exc = "") =>
               /\ syslocale # <<>>
               /\ syslocale[1].id \notin Ids(last.pre)
               /\ syslocale[1].cls = "Locale"
               /\ syslocale[1].attrs =
                      [language |-> RefV(langStored[lower(ResolvedLanguage.s)]),
                       country |-> RefV(ctryStored[lower(ResolvedCountry.s)]),
                       encoding |-> HostEncoding,
                       _LocaleBase__immutable |-> BoolV(TRUE)]
        /\ (last.exc = "TMDBLocaleError") => syslocale = last.pre

\* set_locale("fr", "YY") has failed on the country with a locale stored
C8_Witness ==
    /\ last.op = "set_locale"
    /\ last.a = StrV(FR)
    /\ last.b = StrV(YY)
    /\ last.exc = "TMDBLocaleError"
    /\ last.pre # <<>>
    /\ syslocale = last.pre

\* what get_locale() answers for a stored locale
GetLocaleOf(sl) ==
    get_locale(sl, langStored, ctryStored, sysenc, FreshId(Live),
               FreshId(Live \cup {FreshId(Live)}), IntV(-1), IntV(-1))

\* C9: when set_locale(l, c) with registered l and c is called twice in a
\* row, get_locale() after the second call has the language, country and
\* encoding it had after the first.
C9_SetLocaleIdempotent ==
    ( /\ last.op = "set_locale"
      /\ last.rep
      /\ IsCode(langStored, last.a)
      /\ IsCode(ctryStored, last.b) )
    => LET first  == GetLocaleOf(last.pre)
           second == GetLocaleOf(syslocale)
       IN  /\ last.exc = ""
           /\ last.pre # <<>>
           /\ first.exc = "" /\ second.exc = ""
           /\ \A f \in {"language", "country", "encoding"} :
                  second.ret[1].attrs[f] = first.ret[1].attrs[f]

\* set_locale("fr", "FR") has run twice in a row and left a second instance
C9_Witness ==
    /\ last.op = "set_locale"
    /\ last.rep
    /\ last.a = StrV(FR)
    /\ last.b = StrV(FRc)
    /\ last.exc = ""
    /\ syslocale[1].id # last.pre[1].id

\* the entity v refers to is one of class cls that the registry stored holds
Registered(stored, cls, v) ==
    /\ v.t = "ref"
    /\ v.n \in DOMAIN objs
    /\ objs[v.n].cls = cls
    /\ \E k \in DOMAIN stored : stored[k] = v.n

\* C11: after any sequence of set_locale and get_locale calls, whatever
\* their arguments (None, empty, registered or unregistered codes), syslocale
\* is either unset or a Locale whose language and country are both entities,
\* not None, that their registries hold; a call that found a locale stored
\* leaves one stored; and with a locale stored set_locale() with no arguments
\* does not raise.
C11_StoredLocaleWellFormed ==
    /\ (syslocale # <<>>) =>
           /\ syslocale[1].cls = "Locale"
           /\ Registered(langStored, "Language", syslocale[1].attrs["language"])
           /\ Registered(ctryStored, "Country", syslocale[1].attrs["country"])
           /\ \A ft \in BOOLEAN :
                  set_locale(syslocale, objs, langStored, ctryStored, sysloc, sysenc,
                             FreshId(Live), NoneV, NoneV, ft).exc = ""
    /\ (last.pre # <<>>) => (syslocale # <<>>)
    /\ (last.op = "set_locale" /\ last.pre # <<>> /\ last.a = NoneV /\ last.b = NoneV) =>
           last.exc = ""

\* set_locale(None, "FR") on a fresh process whose host names no locale has
\* taken the language from the default and stored en_FR
C11_Witness ==
    /\ last.op = "set_locale"
    /\ last.a = NoneV
    /\ last.b = StrV(FRc)
    /\ last.pre = <<>>
    /\ sysloc = NoneV
    /\ last.exc = ""
    /\ str(objs, syslocale[1]) = EN \o <<"_">> \o FRc

-----------------------------------------------------------------------------
(* Threads: set_locale and get_locale step by step.  A step is one read or  *)
(* one write of the global syslocale (or of LocaleBase.fallthrough) with    *)
(* the local computation that follows it; the module takes no lock.         *)

NThreads == 2
MaxCalls == 2

Threads == 1..NThreads

Idle ==
    [op |-> "none", a |-> NoneV, b |-> NoneV, ft |-> FALSE, calls |-> 0,
     dl |-> NoneV, dc |-> NoneV, langFrom |-> 0, ctryFrom |-> 0,
     loc |-> <<>>, new |-> <<>>, exc |-> "", ret |-> <<>>, stored |-> FALSE]

InitThreads ==
    /\ InitRegistries
    /\ sysloc = StrV(FR_FR)
    /\ sysenc = StrV(UTF8)
    /\ tpc = [t \in Threads |-> "idle"]
    /\ tloc = [t \in Threads |-> Idle]
    /\ installed = {}

Held(l) == Ids(l.loc) \cup Ids(l.new) \cup Ids(l.ret)

LiveT == Ids(objs) \cup Ids(syslocale) \cup {o.id : o \in installed}
         \cup UNION {Held(tloc[t]) : t \in Threads}

frame == <<objs, langStored, ctryStored, sysloc, sysenc, last>>

\* the call of set_locale: LocaleBase.fallthrough = fallthrough
SetBegin(t, language, country, ft) ==
    /\ tpc[t] = "idle"
    /\ tloc[t].calls < MaxCalls
    /\ fallthrough' = ft
    /\ tloc' = [tloc EXCEPT ![t] = [Idle EXCEPT !.op = "set_locale", !.a = language,
                                       !.b = country, !.ft = ft, !.calls = tloc[t].calls + 1]]
    /\ tpc' = [tpc EXCEPT ![t] = "s_test"]
    /\ UNCHANGED <<syslocale, installed, frame>>

\* if (not language) or (not country): ... if syslocale is not None
SetTest(t) ==
    /\ tpc[t] = "s_test"
    /\ LET l == tloc[t]
       IN  IF Truthy(l.a) /\ Truthy(l.b)
           THEN /\ tloc' = [tloc EXCEPT ![t].dl = l.a, ![t].dc = l.b]
                /\ tpc' = [tpc EXCEPT ![t] = "s_make"]
           ELSE IF syslocale # <<>>
                THEN /\ tloc' = tloc
                     /\ tpc' = [tpc EXCEPT ![t] = "s_lang"]
                ELSE LET dat == BaseOf(<<>>, objs, sysloc)
                     IN  /\ tloc' = [tloc EXCEPT
                                ![t].dl = IF l.a = NoneV THEN dat[1] ELSE l.a,
                                ![t].dc = IF l.b = NoneV THEN dat[2] ELSE l.b]
                         /\ tpc' = [tpc EXCEPT ![t] = "s_make"]
    /\ UNCHANGED <<syslocale, fallthrough, installed, frame>>

\* str(syslocale.language)
SetReadLanguage(t) ==
    /\ tpc[t] = "s_lang"
    /\ tloc' = [tloc EXCEPT ![t].dl = BaseOf(syslocale, objs, sysloc)[1],
                            ![t].langFrom = syslocale[1].id]
    /\ tpc' = [tpc EXCEPT ![t] = "s_ctry"]
    /\ UNCHANGED <<syslocale, fallthrough, installed, frame>>

\* str(syslocale.country), then the two `is None` tests on the arguments
SetReadCountry(t) ==
    /\ tpc[t] = "s_ctry"
    /\ LET l == tloc[t]
           dc == BaseOf(syslocale, objs, sysloc)[2]
       IN  tloc' = [tloc EXCEPT ![t].dl = IF l.a = NoneV THEN l.dl ELSE l.a,
                                ![t].dc = IF l.b = NoneV THEN dc ELSE l.b,
                                ![t].ctryFrom = syslocale[1].id]
    /\ tpc' = [tpc EXCEPT ![t] = "s_ctry_done"]
    /\ UNCHANGED <<syslocale, fallthrough, installed, frame>>

\* Locale(language, country, sysenc): the lookups and the construction
SetMake(t) ==
    /\ tpc[t] \in {"s_make", "s_ctry_done"}
    /\ LET l == tloc[t]
           r == Locale__init__(langStored, ctryStored, FreshId(LiveT), l.dl, l.dc, sysenc)
       IN  IF r.exc = ""
           THEN /\ tloc' = [tloc EXCEPT ![t].new = r.ret]
                /\ tpc' = [tpc EXCEPT ![t] = "s_store"]
           ELSE /\ tloc' = [tloc EXCEPT ![t].exc = r.exc]
                /\ tpc' = [tpc EXCEPT ![t] = "idle"]
    /\ UNCHANGED <<syslocale, fallthrough, installed, frame>>

\* syslocale = <the new Locale>
SetStore(t) ==
    /\ tpc[t] = "s_store"
    /\ syslocale' = tloc[t].new
    /\ installed' = installed \cup {tloc[t].new[1]}
    /\ tloc' = [tloc EXCEPT ![t].new = <<>>, ![t].stored = TRUE]
    /\ tpc' = [tpc EXCEPT ![t] = "idle"]
    /\ UNCHANGED <<fallthrough, frame>>

\* the call of get_locale: if syslocale is None: loc = Locale(None, None, ...)
GetTest(t, language, country) ==
    /\ tpc[t] = "idle"
    /\ tloc[t].calls < MaxCalls
    /\ IF syslocale = <<>>
       THEN /\ tloc' = [tloc EXCEPT ![t] =
                           [Idle EXCEPT !.op = "get_locale", !.a = language, !.b = country,
                                        !.calls = tloc[t].calls + 1,
                                        !.loc = <<LocOf(<<>>, langStored, ctryStored,
                                                        sysenc, FreshId(LiveT))>>]]
            /\ tpc' = [tpc EXCEPT ![t] = "g_rest"]
       ELSE /\ tloc' = [tloc EXCEPT ![t] =
                           [Idle EXCEPT !.op = "get_locale", !.a = language, !.b = country,
                                        !.calls = tloc[t].calls + 1, !.stored = TRUE]]
            /\ tpc' = [tpc EXCEPT ![t] = "g_load"]
    /\ UNCHANGED <<syslocale, fallthrough, installed, frame>>

\* else: loc = syslocale
GetLoad(t) ==
    /\ tpc[t] = "g_load"
    /\ tloc' = [tloc EXCEPT ![t].loc = syslocale]
    /\ tpc' = [tpc EXCEPT ![t] = "g_rest"]
    /\ UNCHANGED <<syslocale, fallthrough, installed, frame>>

\* the rest of get_locale works on loc alone
GetReturn(t) ==
    /\ tpc[t] = "g_rest"
    /\ LET l == tloc[t]
           r == get_locale(l.loc, langStored, ctryStored, sysenc,
                           FreshId(LiveT), FreshId(LiveT), l.a, l.b)
       IN  tloc' = [tloc EXCEPT ![t].exc = r.exc, ![t].ret = r.ret, ![t].loc = <<>>]
    /\ tpc' = [tpc EXCEPT ![t] = "idle"]
    /\ UNCHANGED <<syslocale, fallthrough, installed, frame>>

\* the calls the threads make
SetCalls == { <<NoneV, NoneV, FALSE>>, <<StrV(EN), StrV(US), TRUE>>,
              <<StrV(FR), StrV(XX), FALSE>> }
GetCalls == { <<IntV(-1), IntV(-1)>>, <<StrV(FR), IntV(-1)>> }

NextThreads ==
    \E t \in Threads :
        \/ \E call \in SetCalls : SetBegin(t, call[1], call[2], call[3])
        \/ SetTest(t)
        \/ SetReadLanguage(t)
        \/ SetReadCountry(t)
        \/ SetMake(t)
        \/ SetStore(t)
        \/ \E call \in GetCalls : GetTest(t, call[1], call[2])
        \/ GetLoad(t)
        \/ GetReturn(t)

SpecThreads == InitThreads /\ [][NextThreads]_vars

\* C10 as stated: when calls of several threads interleave, every
\* get_locale() result taken from the stored locale is a Locale that one
\* set_locale call installed, and the base language and base country that a
\* set_locale call with missing arguments reuses come from the same
\* installed Locale, so that what it installs never joins the language of one
\* installed Locale with the country of another.
C10_NoMixedLocale ==
    \A t \in Threads :
        /\ ( /\ tloc[t].op = "get_locale" /\ tpc[t] = "idle" /\ tloc[t].stored
             /\ tloc[t].a = IntV(-1) /\ tloc[t].b = IntV(-1) )
           => (tloc[t].ret # <<>> /\ tloc[t].ret[1] \in installed)
        /\ (tloc[t].op = "set_locale" /\ tpc[t] \in {"s_ctry_done", "s_store"}
            /\ tloc[t].ctryFrom # 0)
           => tloc[t].langFrom = tloc[t].ctryFrom

====
